---- MODULE Spec2Model ----
(***************************************************************************)
(* A model of the unit algebra of mp-units (core/include/units/unit.h):    *)
(* named, prefixed, scaled and derived units, their canonical form, the    *)
(* operators * / pow, equality, convertibility and the common unit.        *)
(*                                                                         *)
(* A unit is a tagged tuple that stands for the C++ type of the unit:      *)
(*   <<"named", name>>          a struct deriving from named_unit or       *)
(*                              prefixed_unit (it has a symbol)            *)
(*   <<"scaled", M, U>>         scaled_unit<M, U>                          *)
(*   <<"derived", nums, dens>>  derived_unit<Nums..., per<Dens...>>; the   *)
(*                              unit one is <<"derived", <<>>, <<>>>>      *)
(* and a term of a derived unit is a unit F (exponent 1, stored bare) or   *)
(*   <<"power", F, Num, Den>>   power<F, Num, Den>.                        *)
(*                                                                         *)
(* A magnitude is a vector of rational exponents over the bases 2, 3, 5    *)
(* and pi; a rational is a pair <<num, den>> in lowest terms, den > 0.     *)
(***************************************************************************)
EXTENDS Integers, Sequences, FiniteSets, TLC

(***************************************************************************)
(* Rationals (units/ratio.h).                                              *)
(***************************************************************************)
Abs(x) == IF x < 0 THEN -x ELSE x

RECURSIVE Gcd(_, _)
Gcd(a, b) == IF b = 0 THEN a ELSE Gcd(b, a % b)

\* ratio{n, d}: the constructor normalises to lowest terms with d > 0.
Reduced(n, d, g) ==
  IF d < 0 THEN <<(-n) \div g, (-d) \div g>> ELSE <<n \div g, d \div g>>
ratio(n, d) == Reduced(n, d, Gcd(Abs(n), Abs(d)))

RatZero == <<0, 1>>
RatOne == <<1, 1>>
RatAdd(p, q) == ratio(p[1] * q[2] + q[1] * p[2], p[2] * q[2])
RatNeg(p) == <<-p[1], p[2]>>
RatSub(p, q) == RatAdd(p, RatNeg(q))
RatMul(p, q) == ratio(p[1] * q[1], p[2] * q[2])
RatLess(p, q) == p[1] * q[2] < q[1] * p[2]
RatMin(p, q) == IF RatLess(q, p) THEN q ELSE p

(***************************************************************************)
(* Magnitude engine (units/magnitude.h).                                   *)
(***************************************************************************)
\* The basis of a magnitude: three primes and the irrational constant pi.
PrimeOf == <<2, 3, 5>>
PrimeIdx == DOMAIN PrimeOf
BasisIdx == PrimeIdx \cup {Len(PrimeOf) + 1}
PiIdx == Len(PrimeOf) + 1

MagVec(e2, e3, e5, epi) == <<e2, e3, e5, epi>>

\* mag<1>: no basis power at all.
MagOne == MagVec(RatZero, RatZero, RatZero, RatZero)
\* mag<2>, mag<3>, mag<60>, mag_power<10, 3>, mag<ratio{1, 2}>, mag_pi
Mag2 == MagVec(RatOne, RatZero, RatZero, RatZero)
Mag3 == MagVec(RatZero, RatOne, RatZero, RatZero)
Mag60 == MagVec(<<2, 1>>, RatOne, RatOne, RatZero)
MagKilo == MagVec(<<3, 1>>, RatZero, <<3, 1>>, RatZero)
MagHalf == MagVec(<<-1, 1>>, RatZero, RatZero, RatZero)
MagPi == MagVec(RatZero, RatZero, RatZero, RatOne)

MagMul(a, b) ==
  MagVec(RatAdd(a[1], b[1]), RatAdd(a[2], b[2]), RatAdd(a[3], b[3]), RatAdd(a[4], b[4]))
MagDiv(a, b) ==
  MagVec(RatSub(a[1], b[1]), RatSub(a[2], b[2]), RatSub(a[3], b[3]), RatSub(a[4], b[4]))
\* pow<ratio{Num, Den}>(m): every exponent is multiplied by Num/Den.
MagPow(a, r) ==
  MagVec(RatMul(a[1], r), RatMul(a[2], r), RatMul(a[3], r), RatMul(a[4], r))

\* is_integral(m): only prime bases, each to a non-negative integer power.
is_integral(m) ==
  /\ \A i \in PrimeIdx : m[i][2] = 1 /\ m[i][1] >= 0
  /\ m[PiIdx] = RatZero

\* is_rational(m): only prime bases, each to an integer power.
is_rational(m) ==
  /\ \A i \in PrimeIdx : m[i][2] = 1
  /\ m[PiIdx] = RatZero

\* common_magnitude(a, b): per basis the smaller of the two exponents, so that
\* a / cm and b / cm have only non-negative exponents.
common_magnitude(a, b) ==
  MagVec(RatMin(a[1], b[1]), RatMin(a[2], b[2]), RatMin(a[3], b[3]), RatMin(a[4], b[4]))

RECURSIVE IntPow(_, _)
IntPow(b, e) == IF e <= 0 THEN 1 ELSE b * IntPow(b, e - 1)

\* numerator(m) / denominator(m) of a rational magnitude, as integers
\* (get_value<std::intmax_t>).
NumValue(m) ==
  IntPow(2, m[1][1]) * IntPow(3, m[2][1]) * IntPow(5, m[3][1])
DenValue(m) ==
  IntPow(2, -m[1][1]) * IntPow(3, -m[2][1]) * IntPow(5, -m[3][1])

(***************************************************************************)
(* Units as values (the C++ types of unit.h).                              *)
(***************************************************************************)
Named(name) == <<"named", name>>
Scaled(m, u) == <<"scaled", m, u>>
Derived(nums, dens) == <<"derived", nums, dens>>
Power(f, n, d) == <<"power", f, n, d>>

\* struct one : derived_unit<> {}
one == Derived(<<>>, <<>>)

IsNamed(u) == u[1] = "named"
IsPower(t) == t[1] = "power"
\* detail::is_specialization_of_scaled_unit<T>: the exact template, not a unit
\* that merely inherits from it (minute, kilometre).
is_specialization_of_scaled_unit(u) == u[1] = "scaled"
\* is_specialization_of<T, derived_unit>; the struct one is not one.
is_specialization_of_derived_unit(u) == u[1] = "derived" /\ u # one
\* requires { U::symbol; }: named_unit and prefixed_unit define it.
HasSymbol(u) == IsNamed(u)

\* The named units of the documentation of named_unit, prefixed_unit and
\* derived_unit, in the order of their type names.
NameOrder ==
  <<"becquerel", "gram", "hertz", "kilogram", "kilometre", "metre", "minute",
    "newton", "second">>
Names == {NameOrder[i] : i \in DOMAIN NameOrder}
NameRank(name) == CHOOSE i \in DOMAIN NameOrder : NameOrder[i] = name

metre == Named("metre")
second == Named("second")
gram == Named("gram")
hertz == Named("hertz")
becquerel == Named("becquerel")
minute == Named("minute")
kilometre == Named("kilometre")
kilogram == Named("kilogram")
newton == Named("newton")

(***************************************************************************)
(* type_name<T>() as a sequence of integers, compared lexicographically.   *)
(***************************************************************************)
RECURSIVE LexLess(_, _)
LexLess(s, t) ==
  IF t = <<>> THEN FALSE
  ELSE IF s = <<>> THEN TRUE
  ELSE IF Head(s) # Head(t) THEN Head(s) < Head(t)
  ELSE LexLess(Tail(s), Tail(t))

MagKey(m) == <<m[1][1], m[1][2], m[2][1], m[2][2], m[3][1], m[3][2], m[4][1], m[4][2]>>

RECURSIVE TypeKey(_)
RECURSIVE TypeKeys(_)
TypeKeys(ts) == IF ts = <<>> THEN <<>> ELSE TypeKey(Head(ts)) \o TypeKeys(Tail(ts))

TypeKey(u) ==
  CASE u[1] = "named" -> <<5 + NameRank(u[2])>>
    [] u[1] = "scaled" -> <<3>> \o MagKey(u[2]) \o TypeKey(u[3])
    [] u[1] = "power" -> <<4>> \o TypeKey(u[2]) \o <<u[3], u[4]>>
    [] u[1] = "derived" -> <<1>> \o TypeKeys(u[2]) \o <<2>> \o TypeKeys(u[3]) \o <<0>>

\* a comparison that orders no two units: a merge keeps the operands' order
UnitLessNever(lhs, rhs) == FALSE

\* unit_less<Lhs, Rhs>: type_name<Lhs>() < type_name<Rhs>()
unit_less(lhs, rhs) == LexLess(TypeKey(lhs), TypeKey(rhs))

(***************************************************************************)
(* Expression templates (units/bits/expression_template.h).                *)
(***************************************************************************)
\* The factor and the exponent of a term: a bare unit has exponent 1,
\* power<F, Num, Den>::exponent is ratio{Num, Den}.
TermFactor(t) == IF IsPower(t) THEN t[2] ELSE t
TermExp(t) == IF IsPower(t) THEN ratio(t[3], t[4]) ELSE RatOne

\* power_or_T<T, r>: T itself for r = 1, power<T, r.num, r.den> otherwise.
power_or_T(f, r) == IF r = RatOne THEN f ELSE Power(f, r[1], r[2])

\* expr_less<T1, T2, Pred>: by factor; a bare T comes before power<T, ...>.
type_list_of_unit_less(t1, t2) ==
  IF TermFactor(t1) = TermFactor(t2)
  THEN ~IsPower(t1) /\ IsPower(t2)
  ELSE unit_less(TermFactor(t1), TermFactor(t2))

RECURSIVE type_list_merge_sorted(_, _)
type_list_merge_sorted(l, r) ==
  IF l = <<>> THEN r
  ELSE IF r = <<>> THEN l
  ELSE IF type_list_of_unit_less(Head(l), Head(r))
       THEN <<Head(l)>> \o type_list_merge_sorted(Tail(l), r)
       ELSE <<Head(r)>> \o type_list_merge_sorted(l, Tail(r))

\* expr_consolidate: neighbours with the same factor become one term with the
\* sum of the exponents.
RECURSIVE expr_consolidate(_)
ConsolidatedWith(f, e, rest) ==
  IF e = RatZero THEN expr_consolidate(rest)
  ELSE expr_consolidate(<<power_or_T(f, e)>> \o rest)

expr_consolidate(l) ==
  IF Len(l) < 2 THEN l
  ELSE IF TermFactor(l[1]) = TermFactor(l[2])
       THEN ConsolidatedWith(TermFactor(l[1]), RatAdd(TermExp(l[1]), TermExp(l[2])),
                             Tail(Tail(l)))
       ELSE <<l[1]>> \o expr_consolidate(Tail(l))

\* expr_simplify: a factor present in the numerator and in the denominator
\* keeps the difference of the exponents on the side of the larger one.
PushNum(t, rest) == <<<<t>> \o rest[1], rest[2]>>
PushDen(t, rest) == <<rest[1], <<t>> \o rest[2]>>
SimplifiedWith(f, e, rest) ==
  IF e = RatZero THEN rest
  ELSE IF e[1] > 0 THEN PushNum(power_or_T(f, e), rest)
  ELSE PushDen(power_or_T(f, RatNeg(e)), rest)

RECURSIVE expr_simplify(_, _)
expr_simplify(num, den) ==
  IF num = <<>> \/ den = <<>> THEN <<num, den>>
  ELSE IF TermFactor(Head(num)) = TermFactor(Head(den))
       THEN SimplifiedWith(TermFactor(Head(num)),
                           RatSub(TermExp(Head(num)), TermExp(Head(den))),
                           expr_simplify(Tail(num), Tail(den)))
       ELSE IF unit_less(TermFactor(Head(num)), TermFactor(Head(den)))
            THEN PushNum(Head(num), expr_simplify(Tail(num), den))
            ELSE PushDen(Head(den), expr_simplify(num, Tail(den)))

\* expr_make_spec: no terms is the unit one, a single bare numerator is that
\* unit itself, anything else is derived_unit<Nums..., per<Dens...>> (with one
\* as the numerator when there is none).
expr_make_spec(num, den) ==
  IF num = <<>> /\ den = <<>> THEN one
  ELSE IF den = <<>> /\ Len(num) = 1 /\ ~IsPower(num[1]) THEN num[1]
  ELSE Derived(num, den)

expr_make_spec_of(s) == expr_make_spec(s[1], s[2])
get_optimized_expression(num, den) ==
  expr_make_spec_of(expr_simplify(expr_consolidate(num), expr_consolidate(den)))

\* derived_unit<Us...>::_num_ and ::_den_ of a derived unit, <T> and <> of any
\* other unit.
NumOf(u) == IF u[1] = "derived" THEN u[2] ELSE <<u>>
DenOf(u) == IF u[1] = "derived" THEN u[3] ELSE <<>>

expr_multiply(lhs, rhs) ==
  IF lhs = one THEN rhs
  ELSE IF rhs = one THEN lhs
  ELSE get_optimized_expression(type_list_merge_sorted(NumOf(lhs), NumOf(rhs)),
                                type_list_merge_sorted(DenOf(lhs), DenOf(rhs)))

expr_divide(lhs, rhs) ==
  IF lhs = rhs THEN one
  ELSE IF rhs = one THEN lhs
  ELSE get_optimized_expression(type_list_merge_sorted(NumOf(lhs), DenOf(rhs)),
                                type_list_merge_sorted(DenOf(lhs), NumOf(rhs)))

expr_invert(u) ==
  IF is_specialization_of_derived_unit(u)
  THEN expr_make_spec(u[3], u[2])
  ELSE Derived(<<>>, <<u>>)

RECURSIVE expr_pow_terms(_, _)
expr_pow_terms(l, r) ==
  IF l = <<>> THEN <<>>
  ELSE <<power_or_T(TermFactor(Head(l)), RatMul(TermExp(Head(l)), r))>>
         \o expr_pow_terms(Tail(l), r)

expr_pow(n, d, u) ==
  IF u = one THEN one
  ELSE IF ratio(n, d) = RatOne THEN u
  ELSE IF is_specialization_of_derived_unit(u)
       THEN expr_make_spec(expr_pow_terms(u[2], ratio(n, d)), expr_pow_terms(u[3], ratio(n, d)))
       ELSE Derived(<<Power(u, n, d)>>, <<>>)

(***************************************************************************)
(* Operators of unit.h.                                                    *)
(***************************************************************************)
\* operator*(Magnitude, Unit): multiplication by 1 returns the same unit.
MagTimesUnit(m, u) == IF m = MagOne THEN u ELSE Scaled(m, u)

\* operator*(Unit, Unit): scaled_unit specializations have priority.
RECURSIVE Multiply(_, _)
Multiply(lhs, rhs) ==
  IF is_specialization_of_scaled_unit(lhs) /\ is_specialization_of_scaled_unit(rhs)
  THEN MagTimesUnit(MagMul(lhs[2], rhs[2]), Multiply(lhs[3], rhs[3]))
  ELSE IF is_specialization_of_scaled_unit(lhs)
  THEN MagTimesUnit(lhs[2], Multiply(lhs[3], rhs))
  ELSE IF is_specialization_of_scaled_unit(rhs)
  THEN MagTimesUnit(rhs[2], Multiply(lhs, rhs[3]))
  ELSE expr_multiply(lhs, rhs)

\* operator/(Unit, Unit)
RECURSIVE Divide(_, _)
Divide(lhs, rhs) ==
  IF is_specialization_of_scaled_unit(lhs) /\ is_specialization_of_scaled_unit(rhs)
  THEN MagTimesUnit(MagDiv(lhs[2], rhs[2]), Divide(lhs[3], rhs[3]))
  ELSE IF is_specialization_of_scaled_unit(lhs)
  THEN MagTimesUnit(lhs[2], Divide(lhs[3], rhs))
  ELSE IF is_specialization_of_scaled_unit(rhs)
  THEN MagTimesUnit(rhs[2], Divide(lhs, rhs[3]))
  ELSE expr_divide(lhs, rhs)

\* operator/(int value, Unit) that always wraps its operand in per<>.
InvertAlwaysWraps(u) == Derived(<<>>, <<u>>)

\* operator/(int value, Unit), value == 1
Invert(u) == expr_invert(u)

RECURSIVE pow(_, _, _)

\* pow<Num, Den>(u) whose scaled_unit branch keeps the magnitude as it is.
PowKeepsMagnitude(n, d, u) ==
  IF HasSymbol(u)
  THEN Derived(<<Power(u, n, d)>>, <<>>)
  ELSE IF is_specialization_of_scaled_unit(u)
  THEN Scaled(u[2], pow(n, d, u[3]))
  ELSE expr_pow(n, d, u)

\* pow<Num, Den>(u) whose scaled_unit branch leaves the reference unit as it is.
PowKeepsReference(n, d, u) ==
  IF HasSymbol(u)
  THEN Derived(<<Power(u, n, d)>>, <<>>)
  ELSE IF is_specialization_of_scaled_unit(u)
  THEN Scaled(MagPow(u[2], ratio(n, d)), u[3])
  ELSE expr_pow(n, d, u)

\* pow<Num, Den>(u)
pow(n, d, u) ==
  IF HasSymbol(u)
  THEN Derived(<<Power(u, n, d)>>, <<>>)
  ELSE IF is_specialization_of_scaled_unit(u)
  THEN Scaled(MagPow(u[2], ratio(n, d)), pow(n, d, u[3]))
  ELSE expr_pow(n, d, u)

\* square<U>: decltype(U * U)
square(u) == Multiply(u, u)

(***************************************************************************)
(* The catalogue of named units: what each struct derives from.            *)
(*   second, metre, gram : named_unit<symbol>                              *)
(*   hertz, becquerel    : named_unit<symbol, 1 / second>                  *)
(*   minute              : named_unit<"min", mag<60> * second>             *)
(*   kilometre, kilogram : prefixed_unit<"k", mag_power<10, 3>, U>         *)
(*   newton              : named_unit<"N", kilogram * metre / square<second>> *)
(***************************************************************************)
BaseNames == {"metre", "second", "gram"}
PrefixedNames == {"kilometre", "kilogram"}
IsBaseUnit(u) == IsNamed(u) /\ u[2] \in BaseNames
IsPrefixed(name) == name \in PrefixedNames

\* The unit a named unit is defined from (its base class): U of
\* named_unit<Symbol, U>, and M * U of prefixed_unit<Symbol, M, U>.
DefinitionOf(name) ==
  CASE name \in {"hertz", "becquerel"} -> Derived(<<>>, <<second>>)
    [] name = "minute" -> Scaled(Mag60, second)
    [] name = "kilometre" -> Scaled(MagKilo, metre)
    [] name = "kilogram" -> Scaled(MagKilo, gram)
    [] name = "newton" -> Derived(<<kilogram, metre>>, <<Power(second, 2, 1)>>)

(***************************************************************************)
(* The canonical unit: <<mag, reference_unit>>.                            *)
(***************************************************************************)
canonical_unit(m, u) == <<m, u>>

RECURSIVE get_canonical_unit_impl(_)

\* The scaled_unit overload without the unit's own magnitude.
CanonicalScaledDropsMag(m, u) == get_canonical_unit_impl(u)

\* get_canonical_unit_impl(T, const scaled_unit<M, U>&)
ScaledCanonical(m, base) == canonical_unit(MagMul(m, base[1]), base[2])
CanonicalScaled(m, u) == ScaledCanonical(m, get_canonical_unit_impl(u))

\* get_canonical_unit_impl(T t, const named_unit<Symbol>&)
CanonicalBase(t) == canonical_unit(MagOne, t)

\* get_canonical_unit_impl(T, const named_unit<Symbol, U>&); a prefixed unit
\* goes on as the scaled_unit<M, U> it inherits from.
CanonicalNamed(u) == get_canonical_unit_impl(u)

\* get_canonical_unit_impl(T, const power<F, Num, Den...>&)
PowerCanonical(base, exponent) ==
  canonical_unit(MagPow(base[1], exponent),
                 Derived(<<power_or_T(base[2], exponent)>>, <<>>))
CanonicalPower(t) == PowerCanonical(get_canonical_unit_impl(t[2]), TermExp(t))

\* (one * ... * get_canonical_unit_impl(Us{}, Us{}).reference_unit)
RECURSIVE CanonicalFoldRef(_)
CanonicalFoldRef(us) ==
  IF us = <<>> THEN one
  ELSE Multiply(CanonicalFoldRef(SubSeq(us, 1, Len(us) - 1)),
                get_canonical_unit_impl(us[Len(us)])[2])

\* (mag<1> * ... * get_canonical_unit_impl(Us{}, Us{}).mag)
RECURSIVE CanonicalFoldMag(_)
CanonicalFoldMag(us) ==
  IF us = <<>> THEN MagOne
  ELSE MagMul(CanonicalFoldMag(SubSeq(us, 1, Len(us) - 1)),
              get_canonical_unit_impl(us[Len(us)])[1])

\* get_canonical_unit_impl(T, const derived_unit<Us...>&)
QuotientCanonical(num, den) ==
  canonical_unit(MagDiv(num[1], den[1]), Divide(num[2], den[2]))
CanonicalDerived(u) ==
  IF u[3] # <<>>
  THEN QuotientCanonical(get_canonical_unit_impl(Derived(u[2], <<>>)),
                         get_canonical_unit_impl(Derived(u[3], <<>>)))
  ELSE canonical_unit(CanonicalFoldMag(u[2]), CanonicalFoldRef(u[2]))

\* Overload resolution by the type the unit is or inherits from.
get_canonical_unit_impl(u) ==
  CASE u[1] = "scaled" -> CanonicalScaled(u[2], u[3])
    [] u[1] = "named" ->
         IF IsBaseUnit(u) THEN CanonicalBase(u) ELSE CanonicalNamed(DefinitionOf(u[2]))
    [] u[1] = "power" -> CanonicalPower(u)
    [] u[1] = "derived" -> CanonicalDerived(u)

get_canonical_unit(u) == get_canonical_unit_impl(u)

\* operator==(Unit, Unit) without the comparison of the magnitudes.
OperatorEqIgnoresMag(lhs, rhs) ==
  get_canonical_unit(lhs)[2] = get_canonical_unit(rhs)[2]

\* operator==(Unit, Unit) with the right-hand side not canonicalised.
SameMagRawRhs(canonical_lhs, canonical_rhs, rhs) ==
  canonical_lhs[2] = rhs /\ canonical_lhs[1] = canonical_rhs[1]
OperatorEqRawRhs(lhs, rhs) ==
  SameMagRawRhs(get_canonical_unit(lhs), get_canonical_unit(rhs), rhs)

\* operator==(Unit, Unit)
SameCanonicalUnit(canonical_lhs, canonical_rhs) ==
  canonical_lhs[2] = canonical_rhs[2] /\ canonical_lhs[1] = canonical_rhs[1]
OperatorEq(lhs, rhs) == SameCanonicalUnit(get_canonical_unit(lhs), get_canonical_unit(rhs))

\* convertible(Unit, Unit) comparing the magnitudes as operator== does.
ConvertibleWithMag(lhs, rhs) ==
  SameCanonicalUnit(get_canonical_unit(lhs), get_canonical_unit(rhs))

\* convertible(Unit, Unit)
convertible(lhs, rhs) == get_canonical_unit(lhs)[2] = get_canonical_unit(rhs)[2]

(***************************************************************************)
(* The common unit (std::common_type<U1, U2>).                             *)
(***************************************************************************)
\* std::derived_from that sees the unit's own type only, not its base classes.
DerivedFromSameOnly(u1, u2) == u1 = u2

\* std::derived_from<U1, U2>: the same struct, or U2 is the type U1 inherits
\* from, directly or through the units it is defined from.
RECURSIVE derived_from(_, _)
derived_from(u1, u2) ==
  \/ u1 = u2
  \/ /\ IsNamed(u1)
     /\ ~IsBaseUnit(u1)
     /\ derived_from(DefinitionOf(u1[2]), u2)

\* common_type_impl with the two integral-ratio branches exchanged.
CommonOfUnequalSwapped(u1, u2, canonical_lhs, canonical_rhs) ==
  IF is_integral(MagDiv(canonical_lhs[1], canonical_rhs[1])) THEN u1
  ELSE IF is_integral(MagDiv(canonical_rhs[1], canonical_lhs[1])) THEN u2
  ELSE Scaled(common_magnitude(canonical_lhs[1], canonical_rhs[1]), canonical_lhs[2])
CommonTypeImplSwapped(u1, u2) ==
  IF OperatorEq(u1, u2)
  THEN IF derived_from(u1, u2) THEN u1 ELSE u2
  ELSE CommonOfUnequalSwapped(u1, u2, get_canonical_unit(u1), get_canonical_unit(u2))

\* The else branch that scales the reference unit by the left magnitude
\* instead of the common magnitude.
CommonOfUnequalLhsMag(u1, u2, canonical_lhs, canonical_rhs) ==
  IF is_integral(MagDiv(canonical_lhs[1], canonical_rhs[1])) THEN u2
  ELSE IF is_integral(MagDiv(canonical_rhs[1], canonical_lhs[1])) THEN u1
  ELSE Scaled(canonical_lhs[1], canonical_lhs[2])

\* The else branch of common_type_impl: the units are not equal.
CommonOfUnequal(u1, u2, canonical_lhs, canonical_rhs) ==
  IF is_integral(MagDiv(canonical_lhs[1], canonical_rhs[1])) THEN u2
  ELSE IF is_integral(MagDiv(canonical_rhs[1], canonical_lhs[1])) THEN u1
  ELSE Scaled(common_magnitude(canonical_lhs[1], canonical_rhs[1]), canonical_lhs[2])

common_type_impl(u1, u2) ==
  IF OperatorEq(u1, u2)
  THEN IF derived_from(u1, u2) THEN u1 ELSE u2
  ELSE CommonOfUnequal(u1, u2, get_canonical_unit(u1), get_canonical_unit(u2))

\* What an operation gives back: a unit, a magnitude, a truth value or a failure.
UnitResult(u) == <<"unit", u>>
MagResult(m) == <<"mag", m>>
BoolResult(b) == <<"bool", b>>
NotConvertible == <<"error", "NotConvertible">>
NoResult == <<"none">>

\* std::common_type<U1, U2> without its requires clause.
CommonTypeUnconstrained(u1, u2) == UnitResult(common_type_impl(u1, u2))

\* std::common_type<U1, U2>, requires(units::convertible(U1{}, U2{}))
common_type(u1, u2) ==
  IF convertible(u1, u2) THEN UnitResult(common_type_impl(u1, u2)) ELSE NotConvertible

\* conversion_factor(U1, U2): the canonical magnitude of U1 over that of U2,
\* defined for convertible units only.
FactorOfCanonical(canonical_from, canonical_to) ==
  IF canonical_from[2] = canonical_to[2]
  THEN MagResult(MagDiv(canonical_from[1], canonical_to[1]))
  ELSE NotConvertible
conversion_factor(u1, u2) == FactorOfCanonical(get_canonical_unit(u1), get_canonical_unit(u2))

(***************************************************************************)
(* Unit symbols (unit_symbol, unit_symbol_to).  A text is a sequence of    *)
(* characters; a character outside ASCII is written as its code point.     *)
(***************************************************************************)
\* enum class text_encoding, unit_symbol_denominator, unit_symbol_separator
text_encoding == {"unicode", "ascii"}
unit_symbol_denominator == {"solidus_one", "always_solidus", "always_negative"}
unit_symbol_separator == {"space", "dot"}

\* struct unit_symbol_formatting and its default member initializers
unit_symbol_formatting(encoding, denominator, separator) ==
  <<encoding, denominator, separator>>
DefaultFormatting == unit_symbol_formatting("unicode", "solidus_one", "space")
Formattings ==
  {unit_symbol_formatting(e, d, s) :
     e \in text_encoding, d \in unit_symbol_denominator, s \in unit_symbol_separator}

\* basic_symbol_text: the Unicode text and its ASCII alternative.
basic_symbol_text(unicode, ascii) == <<unicode, ascii>>
basic_fixed_string(txt) == basic_symbol_text(txt, txt)
TextCat(a, b) == basic_symbol_text(a[1] \o b[1], a[2] \o b[2])

DigitChar == <<"0", "1", "2", "3", "4", "5", "6", "7", "8", "9">>
SuperscriptChar ==
  <<"U+2070", "U+00B9", "U+00B2", "U+00B3", "U+2074", "U+2075", "U+2076", "U+2077",
    "U+2078", "U+2079">>
SuperscriptMinus == "U+207B"
\* the decimal digits of n >= 0, each taken from the table
RECURSIVE DigitsOf(_, _)
DigitsOf(n, table) ==
  IF n < 10 THEN <<table[n + 1]>>
  ELSE DigitsOf(n \div 10, table) \o <<table[(n % 10) + 1]>>

\* regular<Value>(): the number in plain digits
regular(n) ==
  IF n < 0 THEN basic_fixed_string(<<"-">> \o DigitsOf(-n, DigitChar))
  ELSE basic_fixed_string(DigitsOf(n, DigitChar))
\* superscript<Value>(): superscript digits, "^" and plain digits in ASCII
superscript(n) ==
  IF n < 0
  THEN basic_symbol_text(<<SuperscriptMinus>> \o DigitsOf(-n, SuperscriptChar),
                         <<"^", "-">> \o DigitsOf(-n, DigitChar))
  ELSE basic_symbol_text(DigitsOf(n, SuperscriptChar), <<"^">> \o DigitsOf(n, DigitChar))

\* U::symbol of a named unit; a prefixed unit has Symbol + U.symbol.
SymbolOf(name) ==
  CASE name = "metre" -> basic_fixed_string(<<"m">>)
    [] name = "second" -> basic_fixed_string(<<"s">>)
    [] name = "gram" -> basic_fixed_string(<<"g">>)
    [] name = "hertz" -> basic_fixed_string(<<"H", "z">>)
    [] name = "becquerel" -> basic_fixed_string(<<"B", "q">>)
    [] name = "minute" -> basic_fixed_string(<<"m", "i", "n">>)
    [] name = "newton" -> basic_fixed_string(<<"N">>)
    [] name = "kilometre" -> TextCat(basic_fixed_string(<<"k">>), basic_fixed_string(<<"m">>))
    [] name = "kilogram" -> TextCat(basic_fixed_string(<<"k">>), basic_fixed_string(<<"g">>))

\* An output iterator with the characters behind it:
\* <<kind, characters, position of the next write, "ok" or the failure>>.
\* A back_inserter appends to its string whichever copy of it is used; a
\* pointer writes at its own position.
OutputIterators == {"back_inserter", "pointer"}
OutputTo(kind) == <<kind, <<>>, 1, "ok">>
Written(o) == o[2]
Failed(o) == o[4] # "ok"

\* *out++ = c for each character of txt
Put(o, txt) ==
  IF Failed(o) THEN o
  ELSE IF o[1] = "back_inserter"
       THEN <<o[1], o[2] \o txt, Len(o[2]) + Len(txt) + 1, "ok">>
       ELSE <<o[1],
              SubSeq(o[2], 1, o[3] - 1) \o txt \o SubSeq(o[2], o[3] + Len(txt), Len(o[2])),
              o[3] + Len(txt), "ok">>
\* throw, or a call that does not compile
Throw(o, what) == IF Failed(o) THEN o ELSE <<o[1], o[2], o[3], what>>
\* A call whose returned iterator is dropped: the characters are written, the
\* caller goes on with the iterator it had.
Dropped(before, after) ==
  <<before[1], after[2], IF before[1] = "back_inserter" THEN after[3] ELSE before[3],
    after[4]>>

\* detail::copy(txt, encoding, out), CharT = char
copy(txt, encoding, out) == Put(out, IF encoding = "unicode" THEN txt[1] ELSE txt[2])

base_multiplier == basic_symbol_text(<<"U+00D7", " ", "1", "0">>, <<"x", " ", "1", "0">>)

\* integer part of a ratio, towards zero
IntegerPart(r) == IF r[1] >= 0 THEN r[1] \div r[2] ELSE -((-r[1]) \div r[2])
\* extract_power_of_10(m): the largest power of ten that divides m or 1 / m
extract_power_of_10(m) ==
  IF m[1][1] * m[3][1] <= 0 THEN 0
  ELSE IF Abs(m[1][1]) * m[3][2] < Abs(m[3][1]) * m[1][2]
       THEN IntegerPart(m[1])
       ELSE IntegerPart(m[3])
\* mag_power<10, exp10>
MagPower10(exp10) == MagVec(ratio(exp10, 1), RatZero, ratio(exp10, 1), RatZero)

\* The text that puts a pure power of ten into brackets like any other ratio.
MagnitudeTextBracketsAlways(num_value, den_value, exp10) ==
  IF num_value # 1 \/ den_value # 1 \/ exp10 # 0
  THEN TextCat(TextCat(TextCat(
         TextCat(basic_fixed_string(<<"[">>), regular(num_value)),
         IF den_value = 1 THEN basic_fixed_string(<<>>)
         ELSE TextCat(basic_fixed_string(<<"/">>), regular(den_value))),
         IF exp10 = 0 THEN basic_fixed_string(<<>>)
         ELSE TextCat(TextCat(basic_fixed_string(<<" ">>), base_multiplier),
                      superscript(exp10))),
         basic_fixed_string(<<"]">>))
  ELSE basic_fixed_string(<<>>)

\* the text of num_value, den_value and exp10
MagnitudeTextOf(num_value, den_value, exp10) ==
  IF num_value = 1 /\ den_value = 1 /\ exp10 # 0
  THEN TextCat(base_multiplier, superscript(exp10))
  ELSE IF num_value # 1 \/ den_value # 1 \/ exp10 # 0
  THEN IF den_value = 1
       THEN IF exp10 = 0
            THEN TextCat(TextCat(basic_fixed_string(<<"[">>), regular(num_value)),
                         basic_fixed_string(<<"]">>))
            ELSE TextCat(TextCat(TextCat(TextCat(TextCat(
                   basic_fixed_string(<<"[">>), regular(num_value)),
                   basic_fixed_string(<<" ">>)), base_multiplier), superscript(exp10)),
                   basic_fixed_string(<<"]">>))
       ELSE IF exp10 = 0
            THEN TextCat(TextCat(TextCat(TextCat(
                   basic_fixed_string(<<"[">>), regular(num_value)),
                   basic_fixed_string(<<"/">>)), regular(den_value)),
                   basic_fixed_string(<<"]">>))
            ELSE TextCat(TextCat(TextCat(TextCat(TextCat(TextCat(TextCat(
                   basic_fixed_string(<<"[">>), regular(num_value)),
                   basic_fixed_string(<<"/">>)), regular(den_value)),
                   basic_fixed_string(<<" ">>)), base_multiplier), superscript(exp10)),
                   basic_fixed_string(<<"]">>))
  ELSE basic_fixed_string(<<>>)

\* a magnitude_text without the static_assert
MagnitudePrintableAlways(base) == TRUE

\* base == num / den, the static_assert of magnitude_text
MagnitudePrintable(base) == is_rational(base)
MagnitudeTextOfBase(base, exp10) == MagnitudeTextOf(NumValue(base), DenValue(base), exp10)
\* magnitude_text<M>()
magnitude_text(m) ==
  MagnitudeTextOfBase(MagDiv(m, MagPower10(extract_power_of_10(m))), extract_power_of_10(m))
HasMagnitudeText(m) == MagnitudePrintable(MagDiv(m, MagPower10(extract_power_of_10(m))))

\* print_separator(out, fmt)
print_separator(out, fmt) ==
  IF fmt[3] = "dot"
  THEN IF fmt[1] # "unicode"
       THEN Throw(out, "invalid_argument")
       ELSE Dropped(out, Put(out, <<"U+22C5">>))
  ELSE Put(out, <<" ">>)

\* unit_symbol_impl(out, U, fmt, negative_power) for a unit with a symbol
SymbolNegative(out, fmt, negative_power) ==
  IF negative_power THEN copy(superscript(-1), fmt[1], out) ELSE out
UnitSymbolNamed(out, u, fmt, negative_power) ==
  SymbolNegative(copy(SymbolOf(u[2]), fmt[1], out), fmt, negative_power)

\* The exponent part that prints every integral exponent as a negative one.
PowerSuffixAlwaysNegative(out, r, fmt, negative_power) ==
  IF r[2] # 1
  THEN copy(TextCat(TextCat(TextCat(TextCat(basic_fixed_string(<<"^", "(">>), regular(r[1])),
                   basic_fixed_string(<<"/">>)), regular(r[2])), basic_fixed_string(<<")">>)),
            fmt[1], out)
  ELSE IF r[1] # 1 THEN copy(superscript(-r[1]), fmt[1], out)
  ELSE Throw(out, "ill_formed")

\* the exponent part of unit_symbol_impl(out, const power<F, Num, Den...>&, ...);
\* with exponent 1 the function returns nothing and its call does not compile.
PowerSuffix(out, r, fmt, negative_power) ==
  IF r[2] # 1
  THEN copy(TextCat(TextCat(TextCat(TextCat(basic_fixed_string(<<"^", "(">>), regular(r[1])),
                   basic_fixed_string(<<"/">>)), regular(r[2])), basic_fixed_string(<<")">>)),
            fmt[1], out)
  ELSE IF r[1] # 1
  THEN IF negative_power
       THEN copy(superscript(-r[1]), fmt[1], out)
       ELSE copy(superscript(r[1]), fmt[1], out)
  ELSE Throw(out, "ill_formed")

RECURSIVE unit_symbol_impl(_, _, _, _)
RECURSIVE UnitSymbolList(_, _, _, _, _)

\* unit_symbol_impl(out, const scaled_unit<M, U>&, fmt, negative_power)
UnitSymbolScaled(out, u, fmt, negative_power) ==
  IF u[2] = MagOne
  THEN unit_symbol_impl(out, u[3], fmt, negative_power)
  ELSE IF ~HasMagnitudeText(u[2]) THEN Throw(out, "ill_formed")
  ELSE IF u[3] = one THEN copy(magnitude_text(u[2]), fmt[1], out)
  ELSE unit_symbol_impl(Put(copy(magnitude_text(u[2]), fmt[1], out), <<" ">>),
                        u[3], fmt, negative_power)

\* unit_symbol_impl(out, const power<F, Num, Den...>&, fmt, negative_power)
UnitSymbolPower(out, t, fmt, negative_power) ==
  PowerSuffix(unit_symbol_impl(out, t[2], fmt, FALSE), TermExp(t), fmt, negative_power)

\* unit_symbol_impl(out, M, Idx, fmt, negative_power): one term of a list
UnitSymbolAt(out, m, Idx, fmt, negative_power) ==
  unit_symbol_impl(IF Idx > 0 THEN print_separator(out, fmt) ELSE out, m, fmt, negative_power)

\* unit_symbol_impl(out, type_list<Ms...>, index_sequence<Idxs...>, fmt,
\* negative_power): the terms from left to right; n terms are still to print.
UnitSymbolList(out, l, n, fmt, negative_power) ==
  IF n = 0 THEN out
  ELSE UnitSymbolList(UnitSymbolAt(out, l[Len(l) - n + 1], Len(l) - n, fmt, negative_power),
                      l, n - 1, fmt, negative_power)

\* The denominator without the parentheses of always_solidus.
UnitSymbolDensNoParens(out, dens, fmt) ==
  UnitSymbolList(out, dens, Len(dens), fmt,
                 fmt[2] = "always_negative" \/ (fmt[2] = "solidus_one" /\ Len(dens) > 1))

\* the denominator of unit_symbol_impl(out, nums, dens, fmt)
UnitSymbolDens(out, dens, fmt) ==
  IF fmt[2] = "always_solidus" /\ Len(dens) > 1
  THEN Put(UnitSymbolList(Put(out, <<"(">>), dens, Len(dens), fmt, FALSE), <<")">>)
  ELSE UnitSymbolList(out, dens, Len(dens), fmt,
                      fmt[2] = "always_negative" \/ (fmt[2] = "solidus_one" /\ Len(dens) > 1))
\* The solidus without the 1 that stands for an empty numerator.
UnitSymbolSolidusBare(out, nums, dens, fmt) ==
  IF fmt[2] = "always_solidus" \/ (fmt[2] = "solidus_one" /\ Len(dens) = 1)
  THEN Put(out, <<"/">>)
  ELSE print_separator(out, fmt)

\* the solidus or the separator in front of the denominator
UnitSymbolSolidus(out, nums, dens, fmt) ==
  IF fmt[2] = "always_solidus" \/ (fmt[2] = "solidus_one" /\ Len(dens) = 1)
  THEN Put(IF nums = <<>> THEN Put(out, <<"1">>) ELSE out, <<"/">>)
  ELSE print_separator(out, fmt)
\* the numerator: the iterator its call returns is not assigned to out
UnitSymbolNums(out, nums, fmt) ==
  IF Len(nums) > 0
  THEN Dropped(out, UnitSymbolList(out, nums, Len(nums), fmt, FALSE))
  ELSE out

\* unit_symbol_impl(out, type_list<Nums...>, type_list<Dens...>, fmt)
UnitSymbolFraction(out, nums, dens, fmt) ==
  IF nums = <<>> /\ dens = <<>> THEN out
  ELSE IF dens = <<>> THEN UnitSymbolList(out, nums, Len(nums), fmt, FALSE)
  ELSE UnitSymbolDens(UnitSymbolSolidus(UnitSymbolNums(out, nums, fmt), nums, dens, fmt),
                      dens, fmt)

\* unit_symbol_impl(out, const derived_unit<Us...>&, fmt, negative_power),
\* gsl_Expects(negative_power == false)
UnitSymbolDerived(out, u, fmt, negative_power) ==
  IF negative_power THEN Throw(out, "contract_violation")
  ELSE UnitSymbolFraction(out, u[2], u[3], fmt)

\* Overload resolution: a unit with a symbol (named or prefixed), a scaled
\* unit, a power, a derived unit.
unit_symbol_impl(out, u, fmt, negative_power) ==
  IF Failed(out) THEN out
  ELSE CASE u[1] = "named" -> UnitSymbolNamed(out, u, fmt, negative_power)
         [] u[1] = "scaled" -> UnitSymbolScaled(out, u, fmt, negative_power)
         [] u[1] = "power" -> UnitSymbolPower(out, u, fmt, negative_power)
         [] u[1] = "derived" -> UnitSymbolDerived(out, u, fmt, negative_power)

\* unit_symbol_to<CharT>(out, u, fmt)
unit_symbol_to(out, u, fmt) == unit_symbol_impl(out, u, fmt, FALSE)

\* What formatting gives back: the characters, or the failure.
TextResult(txt) == <<"text", txt>>
FormatError(what) == <<"error", what>>
ResultOfOutput(o) == IF Failed(o) THEN FormatError(o[4]) ELSE TextResult(Written(o))

\* unit_symbol<CharT>(u, fmt): into a std::string through std::back_inserter
unit_symbol(u, fmt) == ResultOfOutput(unit_symbol_to(OutputTo("back_inserter"), u, fmt))

\* The template arguments of the type of a derived unit: the numerator terms,
\* or one when there is none, then per<Dens...>.
Per(dens) == <<"per", dens>>
TemplateArguments(u) ==
  (IF u[2] = <<>> /\ u[3] # <<>> THEN <<one>> ELSE u[2])
    \o (IF u[3] = <<>> THEN <<>> ELSE <<Per(u[3])>>)

(***************************************************************************)
(* The client: it starts from a unit of the catalogue, builds units with   *)
(* the operators, queries them against a second unit or themselves, and    *)
(* asks for their symbols.                                                 *)
(***************************************************************************)
MaxSteps == 2

\* The units the client starts from, the right operands of * and /, the second
\* unit of a query, the magnitudes of magnitude * unit, the exponents of pow.
Seeds ==
  {one, metre, second, hertz, becquerel, minute, kilometre, newton,
   Divide(metre, second), MagTimesUnit(Mag2, second), Invert(pow(1, 2, second))}
BuildOperands == {metre, second, hertz, MagTimesUnit(Mag2, second), square(second)}
QueryOperands == {metre, second, kilometre, hertz, MagTimesUnit(Mag3, second)}
ScaleMags == {MagOne, Mag2, MagHalf, MagPi, MagKilo}
PowArgs == {<<1, 1>>, <<2, 1>>, <<1, 2>>}

VARIABLES
  cur,    \* the unit built so far: the result of the last operator
  prev,   \* the left operand of the last operation
  rhs,    \* its right operand (one when it has none)
  op,     \* the last operation
  arg,    \* the exponent <<Num, Den>> of the last pow
  scale,  \* the magnitude of the last magnitude * unit
  out,    \* what the last operation returned
  fmt,    \* the unit_symbol_formatting of the last request for a symbol
  steps   \* the number of operations performed

vars == <<cur, prev, rhs, op, arg, scale, out, fmt, steps>>

Init ==
  /\ cur \in Seeds
  /\ prev = cur
  /\ rhs = one
  /\ op = "init"
  /\ arg = <<1, 1>>
  /\ scale = MagOne
  /\ out = NoResult
  /\ fmt = DefaultFormatting
  /\ steps = 0

\* An operator was applied to cur and its result is the unit built so far.
Built(name, result, r, a, m) ==
  /\ steps < MaxSteps
  /\ steps' = steps + 1
  /\ prev' = cur
  /\ cur' = result
  /\ rhs' = r
  /\ op' = name
  /\ arg' = a
  /\ scale' = m
  /\ fmt' = DefaultFormatting
  /\ out' = UnitResult(result)

\* A request about cur was answered; cur stays.
Answered(name, result, r, f) ==
  /\ steps < MaxSteps
  /\ steps' = steps + 1
  /\ op' = name
  /\ prev' = cur
  /\ rhs' = r
  /\ out' = result
  /\ arg' = <<1, 1>>
  /\ scale' = MagOne
  /\ fmt' = f
  /\ UNCHANGED cur

\* A query about cur and r was answered.
Queried(name, result, r) == Answered(name, result, r, DefaultFormatting)

\* m * cur
ScaleOp == \E m \in ScaleMags : Built("scale", MagTimesUnit(m, cur), one, <<1, 1>>, m)
\* cur * b
MultiplyOp == \E b \in BuildOperands : Built("mul", Multiply(cur, b), b, <<1, 1>>, MagOne)
\* cur / b
DivideOp == \E b \in BuildOperands : Built("div", Divide(cur, b), b, <<1, 1>>, MagOne)
\* 1 / cur
InvertOp == Built("inv", Invert(cur), one, <<1, 1>>, MagOne)
\* pow<Num, Den>(cur)
PowOp == \E a \in PowArgs : Built("pow", pow(a[1], a[2], cur), one, a, MagOne)
\* cur == b
EqualOp ==
  \E b \in QueryOperands \cup {cur} : Queried("equal", BoolResult(OperatorEq(cur, b)), b)
\* convertible(cur, b)
ConvertibleOp ==
  \E b \in QueryOperands \cup {cur} :
    Queried("convertible", BoolResult(convertible(cur, b)), b)
\* conversion_factor(cur, b)
ConversionFactorOp ==
  \E b \in QueryOperands \cup {cur} : Queried("factor", conversion_factor(cur, b), b)
\* std::common_type_t<cur, b>
CommonUnitOp ==
  \E b \in QueryOperands \cup {cur} : Queried("common", common_type(cur, b), b)
\* std::common_type_t<b, cur>
CommonUnitRevOp ==
  \E b \in QueryOperands : Queried("common_rev", common_type(b, cur), b)
\* unit_symbol(cur, f)
UnitSymbolOp ==
  \E f \in Formattings : Answered("unit_symbol", unit_symbol(cur, f), one, f)
\* unit_symbol_to(p, cur, f) with p a pointer into a character array
UnitSymbolToOp ==
  \E f \in Formattings :
    Answered("unit_symbol_to",
             ResultOfOutput(unit_symbol_to(OutputTo("pointer"), cur, f)), one, f)

Next ==
  \/ ScaleOp
  \/ MultiplyOp
  \/ DivideOp
  \/ InvertOp
  \/ PowOp
  \/ EqualOp
  \/ ConvertibleOp
  \/ ConversionFactorOp
  \/ CommonUnitOp
  \/ CommonUnitRevOp
  \/ UnitSymbolOp
  \/ UnitSymbolToOp

Spec == Init /\ [][Next]_vars

(***************************************************************************)
(* Properties.                                                             *)
(***************************************************************************)
RefOf(u) == get_canonical_unit(u)[2]
MagOf(u) == get_canonical_unit(u)[1]
IsQuery(name) == op = name
IsCommonQuery == op \in {"common", "common_rev"}
\* a < b for magnitudes whose quotient is rational
MagSmaller(a, b) ==
  LET r == MagDiv(b, a)
  IN  is_rational(r) /\ NumValue(r) > DenValue(r)

\* C1: operator== answers true exactly when the canonical reference units of
\* the two units are the same expression and their canonical magnitudes are
\* equal.
C1_EqualIffSameCanonical ==
  IsQuery("equal") =>
    out = BoolResult(RefOf(cur) = RefOf(rhs) /\ MagOf(cur) = MagOf(rhs))

\* Two structurally different units were found equal.
C1_Witness ==
  /\ IsQuery("equal")
  /\ out = BoolResult(TRUE)
  /\ cur # rhs
  /\ steps = MaxSteps

\* C2: convertible answers true exactly when the canonical reference units
\* are the same expression, whatever the magnitudes; so units found equal are
\* convertible.
C2_ConvertibleIffSameReference ==
  /\ IsQuery("convertible") => out = BoolResult(RefOf(cur) = RefOf(rhs))
  /\ IsQuery("equal") /\ out = BoolResult(TRUE) => convertible(cur, rhs)

\* Two units of different magnitude were found convertible.
C2_Witness ==
  /\ IsQuery("convertible")
  /\ out = BoolResult(TRUE)
  /\ MagOf(cur) # MagOf(rhs)

\* C3: every unit is equal to itself and convertible with itself, and its
\* conversion factor to itself is the identity magnitude.
C3_Reflexive ==
  rhs = cur =>
    /\ IsQuery("equal") => out = BoolResult(TRUE)
    /\ IsQuery("convertible") => out = BoolResult(TRUE)
    /\ IsQuery("factor") => out = MagResult(MagOne)

\* A unit that is not a base unit was compared with itself.
C3_Witness ==
  /\ IsQuery("equal")
  /\ rhs = cur
  /\ out = BoolResult(TRUE)
  /\ RefOf(cur) # cur

\* C4: 1/second equals hertz and becquerel equals hertz; metre and kilometre
\* are not equal but convertible, and the factor from kilometre to metre is
\* 1000.
C4_HertzAndKilometre ==
  /\ IsQuery("equal") /\ cur \in {Invert(second), becquerel} /\ rhs = hertz
       => out = BoolResult(TRUE)
  /\ IsQuery("equal") /\ cur = metre /\ rhs = kilometre => out = BoolResult(FALSE)
  /\ IsQuery("convertible") /\ cur = metre /\ rhs = kilometre => out = BoolResult(TRUE)
  /\ IsQuery("factor") /\ cur = kilometre /\ rhs = metre
       => /\ out[1] = "mag"
          /\ is_rational(out[2])
          /\ NumValue(out[2]) = 1000
          /\ DenValue(out[2]) = 1

\* 1/second, built by the client, was compared with hertz.
C4_Witness ==
  /\ IsQuery("equal")
  /\ cur = Invert(second)
  /\ prev = cur
  /\ rhs = hertz
  /\ out = BoolResult(TRUE)

\* C5: for units whose canonical reference units differ, convertible is
\* false and neither a conversion factor nor a common unit is given: the
\* request fails with NotConvertible.
C5_NotConvertibleFails ==
  RefOf(cur) # RefOf(rhs) =>
    /\ IsQuery("convertible") => out = BoolResult(FALSE)
    /\ IsQuery("factor") \/ IsCommonQuery => out = NotConvertible

\* The common unit of metre squared and metre was requested and refused.
C5_Witness ==
  /\ IsQuery("common")
  /\ cur = Multiply(metre, metre)
  /\ rhs = metre
  /\ out = NotConvertible

\* C6: pow<2, 1>(U) and square<U> are the same unit as U * U.
C6_SquareIsProduct ==
  op = "pow" /\ arg = <<2, 1>> =>
    /\ cur = Multiply(prev, prev)
    /\ cur = square(prev)
    /\ OperatorEq(cur, Multiply(prev, prev))

\* An anonymous scaled unit was squared.
C6_Witness ==
  /\ op = "pow"
  /\ arg = <<2, 1>>
  /\ is_specialization_of_scaled_unit(prev)
  /\ cur = Multiply(prev, prev)

\* C7: pow<1, 1>(U) equals U.
C7_PowOneIsIdentity ==
  op = "pow" /\ arg = <<1, 1>> => OperatorEq(cur, prev)

\* C8: 1 / (1 / U) is U itself, and 1 / U of a named unit U is the expression
\* with no numerator and U alone in the denominator.
C8_InvertTwice ==
  op = "inv" =>
    /\ Invert(cur) = prev
    /\ IsNamed(prev) => cur = Derived(<<>>, <<prev>>)

\* A unit was inverted twice in a row and the first operand came back.
C8_Witness ==
  /\ op = "inv"
  /\ steps = MaxSteps
  /\ is_specialization_of_derived_unit(prev)
  /\ IsNamed(cur)
  /\ Invert(cur) = prev

\* C9: no operation returns a scaled unit whose magnitude is the identity.
C9_NoIdentityScaledUnit ==
  out[1] = "unit" =>
    ~(is_specialization_of_scaled_unit(out[2]) /\ out[2][2] = MagOne)

\* C10: of two convertible, unequal units whose magnitudes are in an integer
\* ratio the common unit is the one of smaller canonical magnitude, in either
\* argument order.
C10_CommonUnitIsSmaller ==
  LET ma == MagOf(cur)
      mb == MagOf(rhs)
  IN  /\ IsCommonQuery
      /\ RefOf(cur) = RefOf(rhs)
      /\ ma # mb
      /\ is_integral(MagDiv(ma, mb)) \/ is_integral(MagDiv(mb, ma))
      => /\ MagSmaller(ma, mb) \/ MagSmaller(mb, ma)
         /\ out = UnitResult(IF MagSmaller(ma, mb) THEN cur ELSE rhs)

\* The left argument was the smaller unit and was returned.
C10_Witness ==
  /\ IsQuery("common")
  /\ RefOf(cur) = RefOf(rhs)
  /\ MagSmaller(MagOf(cur), MagOf(rhs))
  /\ is_integral(MagDiv(MagOf(rhs), MagOf(cur)))
  /\ out = UnitResult(cur)

\* The unit a named unit of the catalogue is defined from.
IsDefinitionOf(def, u) == IsNamed(u) /\ ~IsBaseUnit(u) /\ def = DefinitionOf(u[2])

\* C11: the common unit of a named unit and the unit it is defined from (the
\* two are equal) is the named unit, in either argument position.
C11_CommonPrefersNamed ==
  IsCommonQuery =>
    /\ IsDefinitionOf(cur, rhs) => OperatorEq(cur, rhs) /\ out = UnitResult(rhs)
    /\ IsDefinitionOf(rhs, cur) => OperatorEq(cur, rhs) /\ out = UnitResult(cur)

\* hertz was the left argument and 1/second, built by the client, the right.
C11_Witness ==
  /\ op = "common_rev"
  /\ rhs = hertz
  /\ cur = Invert(second)
  /\ prev = cur
  /\ out = UnitResult(hertz)

\* every exponent of the magnitude is non-negative
NonNegative(m) == \A i \in BasisIdx : m[i][1] >= 0
\* the two units of a common-unit query are convertible and neither canonical
\* magnitude is an integral multiple of the other
NoIntegralRatio ==
  /\ IsCommonQuery
  /\ RefOf(cur) = RefOf(rhs)
  /\ ~is_integral(MagDiv(MagOf(cur), MagOf(rhs)))
  /\ ~is_integral(MagDiv(MagOf(rhs), MagOf(cur)))
CommonMag == common_magnitude(MagOf(cur), MagOf(rhs))

\* C12 as stated: without an integer ratio the common unit is the shared
\* reference unit scaled by the common magnitude cm, and m1 / cm and m2 / cm
\* are both integral.
C12_CommonMagnitudeIntegral ==
  NoIntegralRatio =>
    /\ out = UnitResult(Scaled(CommonMag, RefOf(cur)))
    /\ is_integral(MagDiv(MagOf(cur), CommonMag))
    /\ is_integral(MagDiv(MagOf(rhs), CommonMag))

\* C12 amended: without an integer ratio the common unit is the shared
\* reference unit scaled by the common magnitude cm; it is convertible with
\* both units, m1 / cm and m2 / cm have no negative exponent, and both are
\* integral when m1 and m2 are rational.
C12_CommonMagnitudeDivides ==
  NoIntegralRatio =>
    /\ out = UnitResult(Scaled(CommonMag, RefOf(cur)))
    /\ convertible(out[2], cur) /\ convertible(out[2], rhs)
    /\ NonNegative(MagDiv(MagOf(cur), CommonMag))
    /\ NonNegative(MagDiv(MagOf(rhs), CommonMag))
    /\ is_rational(MagOf(cur)) /\ is_rational(MagOf(rhs))
         => /\ is_integral(MagDiv(MagOf(cur), CommonMag))
            /\ is_integral(MagDiv(MagOf(rhs), CommonMag))
            /\ conversion_factor(cur, out[2]) = MagResult(MagDiv(MagOf(cur), CommonMag))

\* The common unit of 2 second and 3 second was synthesized.
C12_Witness ==
  /\ IsQuery("common")
  /\ cur = MagTimesUnit(Mag2, second)
  /\ rhs = MagTimesUnit(Mag3, second)
  /\ out = UnitResult(Scaled(MagOne, second))

MetrePerSecondSquared == Derived(<<metre>>, <<Power(second, 2, 1)>>)

\* C13: the symbol of metre / second^2 with the solidus_one denominator style
\* is m/s^2 in ASCII and m/s followed by a superscript 2 in Unicode.
C13_MetrePerSecondSquared ==
  /\ op = "unit_symbol"
  /\ cur = MetrePerSecondSquared
  /\ fmt[2] = "solidus_one"
  /\ fmt[3] = "space"
  => out = TextResult(IF fmt[1] = "ascii" THEN <<"m", "/", "s", "^", "2">>
                      ELSE <<"m", "/", "s", "U+00B2">>)

\* metre / square(second), built by the client, was printed in ASCII.
C13_Witness ==
  /\ op = "unit_symbol"
  /\ cur = Divide(metre, square(second))
  /\ cur = MetrePerSecondSquared
  /\ fmt = unit_symbol_formatting("ascii", "solidus_one", "space")
  /\ out = TextResult(<<"m", "/", "s", "^", "2">>)

\* the unit is an expression with denominator terms only
PureDenominator(u) == u[1] = "derived" /\ u[2] = <<>> /\ u[3] # <<>>
\* the formatting prints the denominator of u after a solidus
UsesSolidus(f, u) == f[2] = "always_solidus" \/ (f[2] = "solidus_one" /\ Len(u[3]) = 1)

\* C14: an expression with denominator terms only has the unit one as its
\* first template argument, and its symbol in a solidus style starts with 1/;
\* the symbol of 1 / second is 1/s.
C14_OneAsNumerator ==
  PureDenominator(cur) =>
    /\ TemplateArguments(cur)[1] = one
    /\ op = "unit_symbol" /\ UsesSolidus(fmt, cur) /\ out[1] = "text"
         => /\ Len(out[2]) >= 2
            /\ SubSeq(out[2], 1, 2) = <<"1", "/">>
    /\ op = "unit_symbol" /\ UsesSolidus(fmt, cur) /\ cur = Derived(<<>>, <<second>>)
         => out = TextResult(<<"1", "/", "s">>)

\* 1 / second, built by the client, was printed with a solidus.
C14_Witness ==
  /\ op = "unit_symbol"
  /\ cur = Invert(second)
  /\ PureDenominator(cur)
  /\ fmt[2] = "always_solidus"
  /\ out = TextResult(<<"1", "/", "s">>)

\* C15: the symbol of any unit with the dot separator in ASCII is refused
\* with invalid_argument, whatever the denominator style.
C15_DotInAsciiFails ==
  /\ op \in {"unit_symbol", "unit_symbol_to"}
  /\ fmt[1] = "ascii"
  /\ fmt[3] = "dot"
  => out = FormatError("invalid_argument")

\* every term of the list is a base unit or a power of a base unit
OnlyBaseTerms(l) == \A i \in DOMAIN l : IsBaseUnit(TermFactor(l[i]))
\* the unit is one, a base unit, or an expression whose terms are base units
OverBaseUnits(u) ==
  \/ IsBaseUnit(u)
  \/ u[1] = "derived" /\ OnlyBaseTerms(u[2]) /\ OnlyBaseTerms(u[3])

\* C16: the reference unit of the canonical unit of every unit is an
\* expression over base units only: none of its terms is a derived named
\* unit, a prefixed unit, a scaled unit or a nested expression.
C16_CanonicalOverBaseUnits == OverBaseUnits(RefOf(cur))

\* C17: the canonical magnitude of U1 / U2 is the canonical magnitude of U1
\* divided by that of U2, and the canonical magnitude of U1 * U2 is their
\* product.
C17_MagnitudeOfQuotient ==
  /\ op = "div" => MagOf(cur) = MagDiv(MagOf(prev), MagOf(rhs))
  /\ op = "mul" => MagOf(cur) = MagMul(MagOf(prev), MagOf(rhs))

\* C18: the canonical unit of a power of U is the power of the canonical
\* magnitude of U and the power of its reference unit distributed over the
\* base units, so the power of a named unit equals, and is convertible with,
\* the same power of the unit it is defined from.
C18_PowerOfNamedUnit ==
  op = "pow" /\ arg # <<1, 1>> /\ IsNamed(prev) /\ ~IsBaseUnit(prev) =>
    /\ MagOf(cur) = MagPow(MagOf(prev), ratio(arg[1], arg[2]))
    /\ RefOf(cur) = pow(arg[1], arg[2], RefOf(prev))
    /\ convertible(cur, pow(arg[1], arg[2], DefinitionOf(prev[2])))
    /\ OperatorEq(cur, pow(arg[1], arg[2], DefinitionOf(prev[2])))

\* a scaled unit is a term of the unit, or of the reference unit of a scaled
\* unit
RECURSIVE HasScaledTerm(_)
HasScaledTerm(u) ==
  CASE u[1] = "derived" ->
         \E i \in DOMAIN (u[2] \o u[3]) :
           \/ is_specialization_of_scaled_unit(TermFactor((u[2] \o u[3])[i]))
           \/ HasScaledTerm(TermFactor((u[2] \o u[3])[i]))
    [] u[1] = "scaled" -> HasScaledTerm(u[3])
    [] OTHER -> FALSE

\* C19: no unit has a scaled unit among the terms of a numerator or a
\* denominator; the product of two scaled units is the product of the
\* magnitudes times the product of the reference units, and the magnitude of
\* a single scaled operand of * or / stays outside the expression.
C19_ScaledStaysOutside ==
  /\ ~HasScaledTerm(cur)
  /\ /\ op = "mul"
     /\ is_specialization_of_scaled_unit(prev)
     /\ is_specialization_of_scaled_unit(rhs)
     => cur = MagTimesUnit(MagMul(prev[2], rhs[2]), Multiply(prev[3], rhs[3]))
  /\ /\ op = "mul"
     /\ is_specialization_of_scaled_unit(prev)
     /\ ~is_specialization_of_scaled_unit(rhs)
     => cur = Scaled(prev[2], Multiply(prev[3], rhs))
  /\ /\ op = "div"
     /\ is_specialization_of_scaled_unit(prev)
     /\ ~is_specialization_of_scaled_unit(rhs)
     => cur = Scaled(prev[2], Divide(prev[3], rhs))

\* C20: pow<Num, Den> of an anonymous scaled unit M x U is the scaled unit of
\* magnitude M^(Num/Den) over pow<Num, Den>(U), and its canonical magnitude is
\* the canonical magnitude of M x U to the power Num/Den.
C20_PowOfScaledDistributes ==
  op = "pow" /\ is_specialization_of_scaled_unit(prev) =>
    /\ cur = Scaled(MagPow(prev[2], ratio(arg[1], arg[2])), pow(arg[1], arg[2], prev[3]))
    /\ MagOf(cur) = MagPow(MagOf(prev), ratio(arg[1], arg[2]))

\* The square root of a scaled unit over a named unit was taken.
C20_Witness ==
  /\ op = "pow"
  /\ arg = <<1, 2>>
  /\ is_specialization_of_scaled_unit(prev)
  /\ IsNamed(prev[3])
  /\ prev[2] # MagOne
  /\ cur = Scaled(MagPow(prev[2], ratio(1, 2)), Derived(<<Power(prev[3], 1, 2)>>, <<>>))

MinusSigns == {"-", SuperscriptMinus}
\* how many characters of txt are in chars
CountOf(txt, chars) == Cardinality({i \in DOMAIN txt : txt[i] \in chars})
\* the terms of the list whose exponent is not an integer
RootTerms(l) == {i \in DOMAIN l : TermExp(l[i])[2] # 1}
\* a symbol of cur with a denominator was returned
SymbolWithDenominator ==
  /\ op = "unit_symbol"
  /\ cur[1] = "derived"
  /\ cur[3] # <<>>
  /\ out[1] = "text"
\* the formatting prints the denominator terms of u with negative exponents
NegativeStyle(f, u) ==
  f[2] = "always_negative" \/ (f[2] = "solidus_one" /\ Len(u[3]) > 1)

\* C21: with always_negative, and with solidus_one and more than one
\* denominator term, no solidus is printed and every denominator term has a
\* negative exponent, be its exponent 1, another integer or a ratio: the text
\* has one minus sign for each denominator term and no '/' but the one inside
\* each ratio exponent.
C21_NegativeExponents ==
  SymbolWithDenominator /\ NegativeStyle(fmt, cur) =>
    /\ CountOf(out[2], MinusSigns) = Len(cur[3])
    /\ CountOf(out[2], {"/"}) = Cardinality(RootTerms(cur[2])) + Cardinality(RootTerms(cur[3]))

\* the symbol of the terms l alone, as numerator terms
TermsText(l, f) == unit_symbol(Derived(l, <<>>), f)
\* the numerator in front of a solidus
NumeratorText(l, f) == IF l = <<>> THEN <<"1">> ELSE TermsText(l, f)[2]
\* txt starts with the characters of head
StartsWith(txt, head) == Len(txt) >= Len(head) /\ SubSeq(txt, 1, Len(head)) = head

\* C22: with always_solidus one denominator term follows '/', two or more
\* follow '/' inside one pair of parentheses; with solidus_one a solidus is
\* printed exactly when the denominator has one term; the terms after a
\* solidus are printed as numerator terms are, with positive exponents.
C22_SolidusRules ==
  SymbolWithDenominator /\ TermsText(cur[3], fmt)[1] = "text" =>
    /\ fmt[2] = "always_solidus" /\ Len(cur[3]) = 1
         => out[2] = NumeratorText(cur[2], fmt) \o <<"/">> \o TermsText(cur[3], fmt)[2]
    /\ fmt[2] = "always_solidus" /\ Len(cur[3]) > 1
         => out[2] = NumeratorText(cur[2], fmt) \o <<"/", "(">>
                       \o TermsText(cur[3], fmt)[2] \o <<")">>
    /\ fmt[2] = "solidus_one" /\ Len(cur[3]) = 1
         => out[2] = NumeratorText(cur[2], fmt) \o <<"/">> \o TermsText(cur[3], fmt)[2]
    /\ fmt[2] = "solidus_one" /\ Len(cur[3]) > 1
         => ~StartsWith(out[2], NumeratorText(cur[2], fmt) \o <<"/">>)
    /\ ~NegativeStyle(fmt, cur) => CountOf(TermsText(cur[3], fmt)[2], MinusSigns) = 0

\* metre / second / hertz was printed with always_solidus.
C22_Witness ==
  /\ op = "unit_symbol"
  /\ cur = Divide(Divide(metre, second), hertz)
  /\ fmt = unit_symbol_formatting("ascii", "always_solidus", "space")
  /\ out = TextResult(<<"m", "/", "(", "H", "z", " ", "s", ")">>)

\* the number of times 10 divides n >= 1
RECURSIVE TensIn(_)
TensIn(n) == IF n % 10 = 0 THEN 1 + TensIn(n \div 10) ELSE 0
\* the largest power of ten in a rational magnitude
TenExponent(m) ==
  IF TensIn(NumValue(m)) > 0 THEN TensIn(NumValue(m)) ELSE -TensIn(DenValue(m))
\* numerator and denominator of m without that power of ten
NumWithoutTens(m) == NumValue(m) \div IntPow(10, TensIn(NumValue(m)))
DenWithoutTens(m) == DenValue(m) \div IntPow(10, TensIn(DenValue(m)))
\* the multiplier text and the exponent
TenPart(e) == TextCat(base_multiplier, superscript(e))
\* [num], [num/den], with the power of ten inside the brackets
BracketedRatio(n, d, e) ==
  TextCat(TextCat(TextCat(
    TextCat(basic_fixed_string(<<"[">>), regular(n)),
    IF d = 1 THEN basic_fixed_string(<<>>) ELSE TextCat(basic_fixed_string(<<"/">>), regular(d))),
    IF e = 0 THEN basic_fixed_string(<<>>) ELSE TextCat(basic_fixed_string(<<" ">>), TenPart(e))),
    basic_fixed_string(<<"]">>))
\* the text the magnitude m is expected to have
ExpectedMagnitudeText(m) ==
  IF NumWithoutTens(m) = 1 /\ DenWithoutTens(m) = 1
  THEN IF TenExponent(m) = 0 THEN basic_fixed_string(<<>>) ELSE TenPart(TenExponent(m))
  ELSE BracketedRatio(NumWithoutTens(m), DenWithoutTens(m), TenExponent(m))
\* the characters of a text in the encoding of f
Encoded(txt, f) == IF f[1] = "unicode" THEN txt[1] ELSE txt[2]

\* C23: the symbol of an anonymous scaled unit of rational magnitude starts
\* with the magnitude less its largest power of ten: the multiplier text and
\* the exponent without brackets for a pure power of ten, otherwise [num] or
\* [num/den] with the power of ten inside the brackets; the reference unit
\* follows after a space. The identity magnitude prints nothing.
C23_MagnitudeText ==
  /\ /\ op = "unit_symbol"
     /\ is_specialization_of_scaled_unit(cur)
     /\ is_rational(cur[2])
     /\ out[1] = "text"
     => /\ cur[3] = one => out[2] = Encoded(ExpectedMagnitudeText(cur[2]), fmt)
        /\ cur[3] # one /\ unit_symbol(cur[3], fmt)[1] = "text"
             => out[2] = Encoded(ExpectedMagnitudeText(cur[2]), fmt) \o <<" ">>
                           \o unit_symbol(cur[3], fmt)[2]
  /\ op = "unit_symbol" /\ IsNamed(cur) => unit_symbol(Scaled(MagOne, cur), fmt) = out

\* 1000 second, built by the client, was printed in Unicode.
C23_Witness ==
  /\ op = "unit_symbol"
  /\ cur = MagTimesUnit(MagKilo, second)
  /\ fmt[1] = "unicode"
  /\ out = TextResult(<<"U+00D7", " ", "1", "0", "U+00B3", " ", "s">>)

\* the terms of a derived unit, numerator then denominator
TermsOf(u) == u[2] \o u[3]
\* Normal form: every factor once, every exponent positive, exponent 1 stored
\* as the bare unit, a single bare numerator stored as that unit.
RECURSIVE NormalForm(_)
NormalForm(u) ==
  CASE u[1] = "derived" ->
         /\ \A i, j \in DOMAIN TermsOf(u) :
              i # j => TermFactor(TermsOf(u)[i]) # TermFactor(TermsOf(u)[j])
         /\ \A i \in DOMAIN TermsOf(u) :
              /\ TermExp(TermsOf(u)[i])[1] > 0
              /\ IsPower(TermsOf(u)[i]) => TermExp(TermsOf(u)[i]) # RatOne
         /\ ~(u[3] = <<>> /\ Len(u[2]) = 1 /\ ~IsPower(u[2][1]))
    [] u[1] = "scaled" -> NormalForm(u[3])
    [] OTHER -> TRUE

\* C24: every unit returned by *, /, 1 / U and pow is in normal form, and a
\* product with one is the other operand: metre * metre is the single term
\* metre^2, one * second is second.
C24_NormalForm ==
  /\ op \in {"mul", "div", "inv", "pow"} => NormalForm(cur)
  /\ op = "mul" /\ prev = one => cur = rhs
  /\ op = "mul" /\ prev = metre /\ rhs = metre => cur = Derived(<<Power(metre, 2, 1)>>, <<>>)

\* C25: U1 * U2 and U2 * U1 are the same expression.
C25_MultiplyCommutes ==
  op = "mul" => cur = Multiply(rhs, prev)

\* second * metre was built and is metre * second.
C25_Witness ==
  /\ op = "mul"
  /\ prev = second
  /\ rhs = metre
  /\ cur = Derived(<<metre, second>>, <<>>)
  /\ cur = Multiply(metre, second)

\* the third operands of a product of three
ThirdOperands == BuildOperands \cup {Invert(second), one}

RECURSIVE HasNestedScaled(_)
HasNestedScaled(u) ==
  CASE u[1] = "scaled" -> is_specialization_of_scaled_unit(u[3]) \/ HasNestedScaled(u[3])
    [] u[1] = "derived" ->
         \E i \in DOMAIN TermsOf(u) : HasNestedScaled(TermFactor(TermsOf(u)[i]))
    [] OTHER -> FALSE

\* C27: no unit produced by the operators holds a scaled unit as the
\* reference unit of a scaled unit, and a magnitude times a scaled unit is one
\* scaled unit with the product of the two magnitudes over the same reference
\* unit, or the bare reference unit when the product is the identity.
C27_NoNestedScaled ==
  /\ ~HasNestedScaled(cur)
  /\ op = "scale" /\ is_specialization_of_scaled_unit(prev) =>
       cur = MagTimesUnit(MagMul(scale, prev[2]), prev[3])

\* C28: the common unit of two units does not depend on the order of the two
\* units.
C28_CommonUnitSymmetric ==
  /\ op = "common" => out = common_type(rhs, cur)
  /\ op = "common_rev" => out = common_type(cur, rhs)

\* a derived unit with numerator terms and denominator terms
HasBothGroups(u) == is_specialization_of_derived_unit(u) /\ u[2] # <<>> /\ u[3] # <<>>

\* C29: through a pointer into a character array, unit_symbol_to of a unit
\* with numerator and denominator terms writes the text a std::string
\* receives, the numerator text first, and returns the position just past the
\* last character written.
C29_AnyOutputIterator ==
  op = "unit_symbol_to" /\ HasBothGroups(cur) /\ unit_symbol(cur, fmt)[1] = "text" =>
    /\ out = unit_symbol(cur, fmt)
    /\ StartsWith(out[2], TermsText(cur[2], fmt)[2])
    /\ unit_symbol_to(OutputTo("pointer"), cur, fmt)[3] = Len(unit_symbol(cur, fmt)[2]) + 1

\* m is a ratio of two integers: integer exponents on the primes, no pi
ExactRatio(m) == (\A i \in 1..3 : m[i][2] = 1) /\ m[4][1] = 0

\* C30: formatting a scaled unit whose magnitude is not a ratio of two
\* integers fails; no text is given back for it.
C30_InexactMagnitudeRejected ==
  /\ op \in {"unit_symbol", "unit_symbol_to"}
  /\ is_specialization_of_scaled_unit(cur)
  /\ ~ExactRatio(cur[2])
  => out = FormatError("ill_formed")

\* pi * second and the square root of 2 * second were formatted.
C30_Witness ==
  /\ op = "unit_symbol"
  /\ cur \in {MagTimesUnit(MagPi, second), pow(1, 2, MagTimesUnit(Mag2, second))}
  /\ out = FormatError("ill_formed")

====
